---- MODULE Spec2Model ----
(***************************************************************************)
(* Model of the Process_Manager sampling engine:                           *)
(*   gpu_monitor.py  GPUMonitor      (the GPU accessor)                    *)
(*   monitor.py      SystemMonitor   (CPU delta tracker, sampling loop)    *)
(*                                                                         *)
(* The specifications share the variables:                                 *)
(*   GpuSpec      the GPUMonitor object driven by any sequence of calls    *)
(*   CpuSpec      SystemMonitor._calculate_cpu_percent on successive       *)
(*                readings                                                 *)
(*   CollectSpec  SystemMonitor._collect_data on any process table         *)
(*   Spec         SystemMonitor.run on its thread, interleaved with stop() *)
(*                and with the GUI thread's delivery of data_updated       *)
(*   FairSpec     Spec with a loop thread that keeps being scheduled       *)
(*                                                                         *)
(* Floating point percentages are modelled as exact rationals num/den.     *)
(* The only exception the GPU code handles is pynvml.NVMLError: a "query   *)
(* failure" is an NVML call raising it.  The libraries the code calls are  *)
(* modelled by their documented behaviour: pynvml reports a figure that is *)
(* not available as None, psutil.process_iter(attrs) stores None for an    *)
(* attribute it is denied, and a Qt signal emitted towards an object of    *)
(* another thread is queued.                                               *)
(***************************************************************************)
EXTENDS Integers, Sequences, FiniteSets, TLC

VARIABLES
    \* ---- gpu_monitor.py
    PYNXML_AVAILABLE,      \* module global, set by the import at line 8-13
    is_available,          \* GPUMonitor.is_available
    pid_gpu_memory_map,    \* GPUMonitor.pid_gpu_memory_map
    nvml_init_calls,       \* number of pynvml.nvmlInit() invocations
    nvml_init_ok,          \* nvmlInit() returned without NVMLError
    nvml_live,             \* library initialised and not yet shut down
    nvml_shutdown_calls,   \* number of pynvml.nvmlShutdown() invocations
    info_failed,           \* history: some get_gpu_info call hit an NVMLError
    gpu_ret,               \* history: the most recent GPUMonitor call and its outcome
    \* ---- monitor.py, CPU delta tracker
    _last_cpu_times,       \* SystemMonitor._last_cpu_times
    cpu_ret,               \* history: the most recent _calculate_cpu_percent call
    \* ---- monitor.py, sampling loop
    pc,                    \* where the thread that executes run() stands
    _is_running,           \* SystemMonitor._is_running
    system_data,           \* run()'s local: the snapshot of the tick in progress
    tick,                  \* history: iterations of the while loop begun
    collected_ticks,       \* history: ticks whose _collect_data returned
    emitted_ticks,         \* history: ticks for which data_updated was emitted
    slept,                 \* history: milliseconds slept by the tick in progress
    stop_at,               \* history: pc and tick at which stop() was called
    spent,                 \* history: milliseconds the steps of the tick in progress took
    proc_ret,              \* history: the most recent process enumeration of _collect_data
    \* ---- ui.py, the GUI thread
    pending                \* data_updated emissions posted to the GUI thread, not yet delivered

gpu_vars == <<PYNXML_AVAILABLE, is_available, pid_gpu_memory_map, nvml_init_calls,
              nvml_init_ok, nvml_live, nvml_shutdown_calls, info_failed, gpu_ret>>

cpu_vars == <<_last_cpu_times, cpu_ret>>

loop_vars == <<pc, _is_running, system_data, tick, collected_ticks, emitted_ticks,
               slept, stop_at, spent, proc_ret, pending>>

vars == <<gpu_vars, cpu_vars, loop_vars>>

-----------------------------------------------------------------------------
(* Bounds and value alphabets of the environment *)

\* number of GPU devices the driver may report
MaxDevices == 2
\* direct calls to shutdown() explored by GpuSpec
MaxShutdownCalls == 2

\* cumulative CPU time, in clock ticks, the machine has accounted in a reading
MaxTicks == 2

\* iterations of run()'s loop that are explored
MaxLoopTicks == 2
\* ui.py line 21: the refresh interval handed to SystemMonitor, in milliseconds
REFRESH_INTERVAL_MS == 1500

\* time, in milliseconds, that the refresh (line 35), the collection (line 37)
\* and the emit (line 39) of one tick may take
MapMs == {0, 300}
CollectMs == {1200}
EmitMs == {0, 300}
\* the logical cores psutil.cpu_times(percpu=True) reports
Cores == 1..2
\* process ids
Pids == {7, 8}
\* usedGpuMemory values a device may report for a process
MemVals == {50}
\* stands for None: pynvml stores None in usedGpuMemory when the driver reports
\* the value as not available (the WDDM driver model on Windows does)
NoneMem == -1
\* (total, used) device memory readings
GpuTotals == {0, 200}
GpuUseds == {0, 50}
\* psutil.virtual_memory().total
RamTotals == {0, 200}
\* memory_info().rss of a process
RssVals == {0, 50}

-----------------------------------------------------------------------------
(* Exact rationals for the float results *)

RECURSIVE GCD(_, _)
GCD(a, b) == IF b = 0 THEN a ELSE GCD(b, a % b)

Abs(x) == IF x < 0 THEN -x ELSE x

\* num/den in lowest terms with a positive denominator (den # 0)
Ratio(num, den) ==
    LET g == GCD(Abs(num), Abs(den))
        s == IF den < 0 THEN -1 ELSE 1
    IN  [num |-> s * (num \div g), den |-> s * (den \div g)]

Zero == [num |-> 0, den |-> 1]
Hundred == [num |-> 100, den |-> 1]

RLess(a, b) == a.num * b.den < b.num * a.den

RAdd(a, b) == Ratio(a.num * b.den + b.num * a.den, a.den * b.den)

RECURSIVE RSumOver(_, _)
RSumOver(f, n) == IF n = 0 THEN Zero ELSE RAdd(RSumOver(f, n - 1), f[n])

-----------------------------------------------------------------------------
(* GPUMonitor: pure parts *)

EmptyMap == [p \in {} |-> 0]

\* dict.get(pid, 0)
MapGet(map, pid) == IF pid \in DOMAIN map THEN map[pid] ELSE 0

\* what the NVML driver reports to _map_pids_to_gpus: for each device the
\* compute processes running on it and their used memory
DeviceProcs == UNION {[S -> MemVals \cup {NoneMem}] : S \in SUBSET Pids}
\* reports of n devices of which the call reads the first k (a device whose list
\* the call never obtains is given the empty list)
ProcHw(n, k) ==
    {[i \in 1..n |-> IF i <= k THEN r[i] ELSE EmptyMap] : r \in [1..k -> DeviceProcs]}

\* what the NVML driver reports to get_gpu_info
DevStats == {d \in [total : GpuTotals, used : GpuUseds] : d.used <= d.total}
\* reports of n devices with readings in stats; a call in which an NVML call
\* raises discards what it read
InfoHw(n, fail, stats) ==
    IF fail = 0 THEN [1..n -> stats] ELSE {[i \in 1..n |-> CHOOSE d \in stats : TRUE]}

\* NVML calls made by _map_pids_to_gpus on n devices: GetCount, then
\* GetHandleByIndex and GetComputeRunningProcesses per device
MapQueries(n) == 1 + 2 * n
\* NVML calls made by get_gpu_info on n devices: GetCount, then GetHandleByIndex,
\* GetName, GetMemoryInfo, GetUtilizationRates and GetUUID per device
InfoQueries(n) == 1 + 5 * n

\* devices whose inner loop completed before the fail-th NVML call raised
MapDevicesBefore(fail) == IF fail <= 1 THEN 0 ELSE (fail - 2) \div 2

\* lines 59-61: the inner loop over one device's processes
AddDevice(map, procs) ==
    [p \in DOMAIN map \cup DOMAIN procs |-> MapGet(map, p) + MapGet(procs, p)]

\* lines 55-61 for devices 1..k
RECURSIVE Aggregate(_, _, _)
Aggregate(map, hw, k) ==
    IF k = 0 THEN map ELSE AddDevice(Aggregate(map, hw, k - 1), hw[k])

\* GPUMonitor.__init__: lib is PYNXML_AVAILABLE, ok is whether nvmlInit() returns
GPUMonitor_init(lib, ok) ==
    [is_available        |-> lib /\ ok,
     pid_gpu_memory_map  |-> EmptyMap,
     nvml_init_calls     |-> IF lib THEN 1 ELSE 0,
     nvml_init_ok        |-> lib /\ ok]

\* mutant: the map is not reset, entries of the previous tick survive
MapReset_keepOld(map) == map

\* line 52: the map is reset before the try block
MapReset(map) == EmptyMap

\* devices whose process list the try block obtains
MapDevicesListed(hw, fail) == IF fail = 0 THEN Len(hw) ELSE MapDevicesBefore(fail)

\* pids of one device whose usedGpuMemory is None
NonePids(procs) == {p \in DOMAIN procs : procs[p] = NoneMem}

\* the first of devices 1..k that lists a process with usedGpuMemory None, 0 when
\* none does
NoneDevice(hw, k) ==
    LET D == {i \in 1..k : NonePids(hw[i]) # {}}
    IN  IF D = {} THEN 0 ELSE CHOOSE i \in D : \A j \in D : i <= j

\* the entries of a device's list (taken in ascending pid order) that precede
\* its first None
BeforeNone(procs) ==
    [p \in {q \in DOMAIN procs : \A n \in NonePids(procs) : q < n} |-> procs[p]]

\* line 61 on a None: int + None is a TypeError, which line 62 does not catch
MapRaises(avail, hw, fail) == avail /\ NoneDevice(hw, MapDevicesListed(hw, fail)) # 0

\* lines 53-61: the map when the try block ends, when the fail-th NVML call
\* raises (fail = 0: no call raises), or when line 61 raises
MapTry(map, hw, fail) ==
    LET k == MapDevicesListed(hw, fail)
        n == NoneDevice(hw, k)
    IN  IF n = 0 THEN Aggregate(map, hw, k)
        ELSE AddDevice(Aggregate(map, hw, n - 1), BeforeNone(hw[n]))

\* mutant: the except clause logs the error but keeps the partial map
MapOnError_keepPartial(partial) == partial

\* lines 62-65: the except clause, entered with the partially built map
MapOnError(partial) == EmptyMap

\* GPUMonitor._map_pids_to_gpus: the new pid_gpu_memory_map
MapPidsToGpus(avail, map, hw, fail) ==
    IF ~avail THEN map
    ELSE IF fail = 0 \/ MapRaises(avail, hw, fail) THEN MapTry(MapReset(map), hw, fail)
    ELSE MapOnError(MapTry(MapReset(map), hw, fail))

\* mutant: the percentage is computed without the guard on the total
DeviceInfo_unguarded(i, d) ==
    [uuid           |-> i,
     total_memory   |-> d.total,
     used_memory    |-> d.used,
     memory_percent |-> IF d.total = 0 THEN [num |-> d.used * 100, den |-> 0]
                        ELSE Ratio(d.used * 100, d.total)]

\* lines 88-95: one entry of gpu_info_list (name and utilisation are copied
\* from the driver unchanged and are left out; uuid identifies the device)
DeviceInfo(i, d) ==
    [uuid           |-> i,
     total_memory   |-> d.total,
     used_memory    |-> d.used,
     memory_percent |-> IF d.total > 0 THEN Ratio(d.used * 100, d.total) ELSE Zero]

\* mutant: the except clause returns [] but leaves the accessor enabled
InfoOnError_keepFlag(avail) == [val |-> <<>>, is_available |-> avail]

\* lines 96-99: the except clause of get_gpu_info
InfoOnError(avail) == [val |-> <<>>, is_available |-> FALSE]

\* mutant: no availability guard, and a successful listing re-enables the accessor
GetGpuInfo_reenable(avail, hw, fail) ==
    IF fail = 0
    THEN [val |-> [i \in 1..Len(hw) |-> DeviceInfo(i, hw[i])], is_available |-> TRUE]
    ELSE InfoOnError(avail)

\* GPUMonitor.get_gpu_info: the returned list and the new is_available
GetGpuInfo(avail, hw, fail) ==
    IF ~avail THEN [val |-> <<>>, is_available |-> avail]
    ELSE IF fail = 0
         THEN [val |-> [i \in 1..Len(hw) |-> DeviceInfo(i, hw[i])], is_available |-> avail]
         ELSE InfoOnError(avail)

\* mutant: subscript lookup, KeyError for a pid that is not in the map
GetProcessGpuMemory_subscript(map, pid) ==
    [val |-> MapGet(map, pid), raised |-> pid \notin DOMAIN map]

\* GPUMonitor.get_process_gpu_memory: the value returned, or a raised exception
GetProcessGpuMemory(map, pid) == [val |-> MapGet(map, pid), raised |-> FALSE]

\* mutant: the lookup inserts the default for a pid that is not mapped
MapAfterGet_setdefault(map, pid) == [p \in DOMAIN map \cup {pid} |-> MapGet(map, p)]

\* line 113: dict.get leaves the dict as it is
MapAfterGet(map, pid) == map

\* mutant: the except clause of shutdown calls nvmlShutdown() again
Shutdown_retry(avail) == IF avail THEN 2 ELSE 0

\* GPUMonitor.shutdown: the number of nvmlShutdown() invocations it makes
Shutdown(avail) == IF avail THEN 1 ELSE 0

\* NVML calls made by one call of a method that stops at the first failure
QueriesMade(avail, total, fail) == IF ~avail THEN 0 ELSE IF fail = 0 THEN total ELSE fail

\* the NVML calls that may raise: any of them while the library is initialised,
\* and the first one (NVMLError_Uninitialized) when it is not
FailPoints(total) == IF nvml_live THEN 0..total ELSE {1}

\* the device counts a call can see: none when it makes no NVML call or when
\* its first call raises
DeviceCounts(maxdev) == IF is_available /\ nvml_live THEN 0..maxdev ELSE {0}

\* reference aggregate of one driver report: per pid, the memory summed over
\* the devices that list it
RECURSIVE RefSum(_, _, _)
RefSum(hw, pid, k) ==
    IF k = 0 THEN 0
    ELSE RefSum(hw, pid, k - 1) + (IF pid \in DOMAIN hw[k] THEN hw[k][pid] ELSE 0)

-----------------------------------------------------------------------------
(* GPUMonitor: construction and calls.  A call's frame is the GPU variables; *)
(* the specifications add what else stays unchanged.                         *)

GpuInit ==
    \E lib \in BOOLEAN, ok \in BOOLEAN :
        LET g == GPUMonitor_init(lib, ok) IN
        /\ PYNXML_AVAILABLE = lib
        /\ is_available = g.is_available
        /\ pid_gpu_memory_map = g.pid_gpu_memory_map
        /\ nvml_init_calls = g.nvml_init_calls
        /\ nvml_init_ok = g.nvml_init_ok
        /\ nvml_live = g.nvml_init_ok
        /\ nvml_shutdown_calls = 0
        /\ info_failed = FALSE
        /\ gpu_ret = [op |-> "init"]

\* gpu_ret records, beside the outcome, what the claims compare it with: the
\* pids mapped on entry, the reference aggregate of the driver's report, and
\* the number of entries built when an NVML call raised.  failed: an NVMLError
\* was raised and handled; raised: an exception left the method
MapCall(maxdev) ==
    \E n \in DeviceCounts(maxdev) : \E fail \in FailPoints(MapQueries(n)) :
    \E hw \in ProcHw(n, IF fail = 0 THEN n ELSE MapDevicesBefore(fail)) :
        LET raised == MapRaises(is_available, hw, fail)
            failed == is_available /\ fail # 0 /\ ~raised
        IN
        /\ pid_gpu_memory_map' = MapPidsToGpus(is_available, pid_gpu_memory_map, hw, fail)
        /\ gpu_ret' =
             [op       |-> "map",
              before   |-> DOMAIN pid_gpu_memory_map,
              expected |-> IF is_available /\ fail = 0 /\ ~raised
                           THEN [p \in Pids |-> RefSum(hw, p, Len(hw))]
                           ELSE [p \in Pids |-> 0],
              failed   |-> failed,
              raised   |-> raised,
              partial  |-> IF failed
                           THEN Cardinality(DOMAIN MapTry(EmptyMap, hw, fail)) ELSE 0,
              queried  |-> QueriesMade(is_available, MapQueries(Len(hw)), fail) > 0]
        /\ UNCHANGED <<PYNXML_AVAILABLE, is_available, nvml_init_calls, nvml_init_ok,
                       nvml_live, nvml_shutdown_calls, info_failed>>

InfoCall(maxdev, stats) ==
    \E n \in DeviceCounts(maxdev) : \E fail \in FailPoints(InfoQueries(n)) :
    \E hw \in InfoHw(n, fail, stats) :
        LET r == GetGpuInfo(is_available, hw, fail) IN
        /\ is_available' = r.is_available
        /\ info_failed' = (info_failed \/ (is_available /\ fail # 0))
        /\ gpu_ret' =
             [op      |-> "info",
              val     |-> r.val,
              raised  |-> FALSE,
              failed  |-> is_available /\ fail # 0,
              queried |-> QueriesMade(is_available, InfoQueries(Len(hw)), fail) > 0]
        /\ UNCHANGED <<PYNXML_AVAILABLE, pid_gpu_memory_map, nvml_init_calls,
                       nvml_init_ok, nvml_live, nvml_shutdown_calls>>

\* nvmlShutdown() raises NVMLError when the library is not initialised, and may
\* raise when it is; the error is logged (lines 123-124), never propagated
ShutdownCall ==
    \E err \in (IF nvml_live THEN BOOLEAN ELSE {TRUE}) :
        LET n == Shutdown(is_available) IN
        /\ n > 0 => nvml_shutdown_calls < MaxShutdownCalls
        /\ nvml_shutdown_calls' = nvml_shutdown_calls + n
        /\ nvml_live' = IF n > 0 /\ ~err THEN FALSE ELSE nvml_live
        /\ gpu_ret' = [op |-> "shutdown", released |-> n, raised |-> FALSE]
        /\ UNCHANGED <<PYNXML_AVAILABLE, is_available, pid_gpu_memory_map,
                       nvml_init_calls, nvml_init_ok, info_failed>>

-----------------------------------------------------------------------------
(* CPU delta tracker *)

NumCores == Cardinality(Cores)

\* one reading of psutil.cpu_times(percpu=True); psutil computes a counter from
\* the kernel's, so a reading may also be lower than the one before it
CpuTimes ==
    {t \in [Cores -> [user : 0..MaxTicks, system : 0..MaxTicks, idle : 0..MaxTicks]] :
        TRUE}

RECURSIVE SumOver(_, _)
SumOver(f, n) == IF n = 0 THEN 0 ELSE SumOver(f, n - 1) + f[n]

Ticks(t) == SumOver([i \in Cores |-> t[i].user + t[i].system + t[i].idle], NumCores)

\* (the UNION makes TLC enumerate the set once)
CpuReadings == UNION {{t} : t \in {u \in CpuTimes : Ticks(u) <= MaxTicks}}

\* mutant: the cumulative counters are used as they are, no baseline subtracted
Delta_cumulative(current, last) ==
    [user |-> current.user, system |-> current.system, idle |-> current.idle]

\* lines 75-78
Delta(current, last) ==
    [user   |-> current.user - last.user,
     system |-> current.system - last.system,
     idle   |-> current.idle - last.idle]

DeltaAll(d) == d.user + d.system + d.idle

\* mutant: no zero guard; den = 0 stands for the ZeroDivisionError
Percent_unguarded(busy, all) ==
    IF all = 0 THEN [num |-> busy * 100, den |-> 0] ELSE Ratio(busy * 100, all)

\* lines 81-84 and 93-96: busy / all * 100, or 0.0 when all is 0
Percent(busy, all) == IF all = 0 THEN Zero ELSE Ratio(busy * 100, all)

\* mutant: only the lower clamp, max(0.0, percent)
Clamp_lowerOnly(percent) == IF RLess(percent, Zero) THEN Zero ELSE percent

\* lines 86 and 98: max(0.0, min(100.0, percent))
Clamp(percent) ==
    LET m == IF RLess(Hundred, percent) THEN Hundred ELSE percent
    IN  IF RLess(m, Zero) THEN Zero ELSE m

\* mutant: the total is the mean of the per-core percentages
TotalPercent_meanOfCores(d) ==
    LET per == [i \in Cores |-> Clamp(Percent(d[i].user + d[i].system, DeltaAll(d[i])))]
        s   == RSumOver(per, NumCores)
    IN  Clamp(Ratio(s.num, s.den * NumCores))

\* lines 88-98: the total, from the deltas summed over the cores
TotalPercent(d) ==
    LET total_delta_user   == SumOver([i \in Cores |-> d[i].user], NumCores)
        total_delta_system == SumOver([i \in Cores |-> d[i].system], NumCores)
        total_delta_all    == SumOver([i \in Cores |-> DeltaAll(d[i])], NumCores)
    IN  Clamp(Percent(total_delta_user + total_delta_system, total_delta_all))

\* SystemMonitor._calculate_cpu_percent on the stored and the current reading
CalculateCpuPercent(last_times, current_times) ==
    LET d == [i \in Cores |-> Delta(current_times[i], last_times[i])]
    IN  [total_percent   |-> TotalPercent(d),
         per_cpu_percent |-> [i \in Cores |->
                                 Clamp(Percent(d[i].user + d[i].system, DeltaAll(d[i])))]]

\* mutant: the baseline of the constructor is kept
NextBaseline_keepFirst(last_times, current_times) == last_times

\* line 63: the baseline stored for the next call
NextBaseline(last_times, current_times) == current_times

\* line 26: the constructor stores the reading it takes
CpuInit(readings) ==
    /\ _last_cpu_times \in readings
    /\ cpu_ret = [op |-> "none"]

CpuCall(readings) ==
    \E current_times \in readings :
        LET r == CalculateCpuPercent(_last_cpu_times, current_times) IN
        /\ _last_cpu_times' = NextBaseline(_last_cpu_times, current_times)
        /\ cpu_ret' = [op              |-> "sample",
                       first           |-> cpu_ret.op = "none",
                       last_times      |-> _last_cpu_times,
                       current_times   |-> current_times,
                       total_percent   |-> r.total_percent,
                       per_cpu_percent |-> r.per_cpu_percent]

-----------------------------------------------------------------------------
(* SystemMonitor: the sampling loop *)

\* The environment of the loop specification: at most one GPU device, and
\* readings in which only core 1 has accounted time.  GpuSpec and CpuSpec
\* explore the accessor and the tracker over the full sets.
LoopDevStats == {d \in DevStats : d.total > 0}
LoopCpuReadings ==
    {t \in CpuReadings :
        /\ Ticks(t) <= 1
        /\ \A i \in Cores : t[i].system = 0 /\ (i > 1 => t[i].user + t[i].idle = 0)}

\* the pids psutil.process_iter yields, in ascending order
RECURSIVE SortedSeq(_)
SortedSeq(S) ==
    IF S = {} THEN <<>>
    ELSE LET m == CHOOSE x \in S : \A y \in S : x <= y
         IN  <<m>> \o SortedSeq(S \ {m})

\* How the OS answers for one pid that psutil.process_iter (line 110) visits.
\* process_iter builds proc.info with Process.as_dict(attrs, ad_value=None): a
\* pid that raises NoSuchProcess there is not yielded at all, and an attribute
\* whose getter raises AccessDenied or ZombieProcess is stored as None.  rss is
\* memory_info().rss; mem_ok is FALSE when memory_info is such a None
ProcEntries ==
    [kind : {"ok"}, rss : RssVals, mem_ok : {TRUE}]
    \cup [kind : {"vanished"}, rss : {0}, mem_ok : {FALSE}]
    \cup [kind : {"denied", "zombie"}, rss : RssVals \ {0}, mem_ok : {TRUE}]
    \cup [kind : {"denied", "zombie"}, rss : {0}, mem_ok : {FALSE}]

\* the process table during one enumeration pass
ProcTables == UNION {[S -> ProcEntries] : S \in SUBSET Pids}

\* the pids process_iter yields
Yielded(table) == {p \in DOMAIN table : table[p].kind # "vanished"}

\* line 119: pinfo['memory_info'].rss on a None is an AttributeError, which
\* line 124 does not catch; the yielded pids on which it is raised
Unreadable(table) == {p \in Yielded(table) : ~table[p].mem_ok}

\* the pids whose record line 115 appends; the loop ends at the first pid on
\* which line 119 raises
Appended(table) == {p \in Yielded(table) : \A u \in Unreadable(table) : p < u}

\* mutant: no guard on the division; den = 0 stands for the ZeroDivisionError
MemoryPercent_unguarded(rss, total) ==
    IF total = 0 THEN [num |-> rss * 100, den |-> 0] ELSE Ratio(rss * 100, total)

\* line 120: ram.total and (rss / ram.total * 100) or 0
MemoryPercent(rss, total) ==
    IF total = 0 THEN Zero
    ELSE IF Ratio(rss * 100, total) = Zero THEN Zero
    ELSE Ratio(rss * 100, total)

\* mutant: the record is built without the lookup in the PID map
ProcessRecord_noLookup(map, ram_total, pid, entry) ==
    [pid              |-> pid,
     memory_bytes     |-> entry.rss,
     memory_percent   |-> MemoryPercent(entry.rss, ram_total),
     gpu_memory_bytes |-> 0]

\* lines 115-123: the record of one process (name, cpu_percent and command are
\* copied from proc.info and are left out)
ProcessRecord(map, ram_total, pid, entry) ==
    [pid              |-> pid,
     memory_bytes     |-> entry.rss,
     memory_percent   |-> MemoryPercent(entry.rss, ram_total),
     gpu_memory_bytes |-> GetProcessGpuMemory(map, pid).val]

\* lines 109-126: the list built by the loop over process_iter, and whether an
\* exception left the loop
CollectProcesses(map, ram_total, table) ==
    LET pids == SortedSeq(Appended(table)) IN
    [val    |-> [k \in 1..Len(pids) |->
                    ProcessRecord(map, ram_total, pids[k], table[pids[k]])],
     raised |-> Unreadable(table) # {}]

\* lines 128-142: the snapshot _collect_data returns
Snapshot(ram_total, cpu, processes, gpu) ==
    [ram       |-> [total |-> ram_total],
     cpu       |-> [total_percent |-> cpu.total_percent,
                    per_cpu_percent |-> cpu.per_cpu_percent],
     processes |-> processes,
     gpu       |-> gpu]

\* SystemMonitor._collect_data: RAM (line 103), CPU (line 106), the process
\* list with one lookup per process (lines 109-126), the devices last (line
\* 140).  When the process loop raises, the devices are not listed and nothing
\* is returned
CollectCall(readings, maxdev, stats, tables, totals) ==
    \E ram_total \in totals : \E table \in tables :
        LET r == CollectProcesses(pid_gpu_memory_map, ram_total, table) IN
        /\ CpuCall(readings)
        /\ proc_ret' = [op        |-> "procs",
                        table     |-> table,
                        ram_total |-> ram_total,
                        raised    |-> r.raised]
        /\ IF r.raised
           THEN /\ UNCHANGED gpu_vars
                /\ system_data' = [op |-> "none"]
           ELSE /\ InfoCall(maxdev, stats)
                /\ system_data' = Snapshot(ram_total, cpu_ret', r.val, gpu_ret'.val)

\* the process tables of the loop specification: a pid is absent, readable or
\* access-denied with memory_info unreadable
LoopProcTables ==
    {t \in ProcTables :
        \A p \in DOMAIN t : t[p] \in {[kind |-> "ok", rss |-> 50, mem_ok |-> TRUE],
                                        [kind |-> "denied", rss |-> 0, mem_ok |-> FALSE]}}
LoopRamTotals == {200}

\* mutant: the loop does not test the flag
LoopTest_ignoreFlag(running) == TRUE

\* line 31: the test of the while loop
LoopTest(running) == running

\* mutant: the emit is not guarded by the flag
ShouldEmit_always(running) == TRUE

\* line 38: the test that guards the emit
ShouldEmit(running) == running

\* mutant: start_time is taken after the refresh of line 35
Elapsed_sinceCollect(sp) == sp.collect + sp.emit

\* lines 32 and 42: elapsed_time = time.time() - start_time, the time lines
\* 35-39 took
Elapsed(sp) == sp.map + sp.collect + sp.emit

\* lines 43-45: the time slept, 0 when sleep_time is not positive
SleepTime(interval, elapsed) ==
    IF interval - elapsed > 0 THEN interval - elapsed ELSE 0

NoTime == [map |-> 0, collect |-> 0, emit |-> 0]

\* SystemMonitor.__init__ (lines 17-26); the thread has not entered run()
LoopInit ==
    /\ GpuInit
    /\ CpuInit(LoopCpuReadings)
    /\ pc = "idle"
    /\ _is_running = TRUE
    /\ system_data = [op |-> "none"]
    /\ tick = 0
    /\ collected_ticks = {}
    /\ emitted_ticks = {}
    /\ slept = 0
    /\ stop_at = [pc |-> "none", tick |-> 0]
    /\ spent = NoTime
    /\ proc_ret = [op |-> "none"]
    /\ pending = <<>>

\* mutant: run() sets the flag again when it is entered
RunEntryFlag_reset(running) == TRUE

\* lines 28-31: run() reads the flag as construction or stop() left it; it is
\* assigned only at lines 21 and 52
RunEntryFlag(running) == running

\* ui.py line 229: thread.started invokes run(); line 30
thread_started ==
    /\ pc = "idle"
    /\ pc' = "while"
    /\ _is_running' = RunEntryFlag(_is_running)
    /\ UNCHANGED <<system_data, tick, collected_ticks, emitted_ticks,
                   slept, stop_at, spent, proc_ret, pending>>
    /\ UNCHANGED <<gpu_vars, cpu_vars>>

\* line 31: the loop test; line 32 when it passes.  system_data, proc_ret,
\* slept and spent describe the tick in progress: the old values are not read
\* again before the new tick overwrites them
run_while ==
    /\ pc = "while"
    /\ IF LoopTest(_is_running)
       THEN /\ tick < MaxLoopTicks
            /\ tick' = tick + 1
            /\ pc' = "map"
       ELSE /\ tick' = tick
            /\ pc' = "shutdown"
    /\ system_data' = [op |-> "none"]
    /\ proc_ret' = [op |-> "none"]
    /\ slept' = 0
    /\ spent' = NoTime
    /\ UNCHANGED <<_is_running, collected_ticks, emitted_ticks, stop_at, pending>>
    /\ UNCHANGED <<gpu_vars, cpu_vars>>

\* line 35, on a machine with at most one device; an exception that leaves the
\* call leaves run() and ends the thread
run_map ==
    /\ pc = "map"
    /\ MapCall(1)
    /\ pc' = IF gpu_ret'.raised THEN "crashed" ELSE "collect"
    /\ \E ms \in MapMs : spent' = [spent EXCEPT !.map = ms]
    /\ UNCHANGED <<_is_running, system_data, tick, collected_ticks, emitted_ticks,
                   slept, stop_at, proc_ret, pending>>
    /\ UNCHANGED cpu_vars

\* line 37
run_collect ==
    /\ pc = "collect"
    /\ CollectCall(LoopCpuReadings, 1, LoopDevStats, LoopProcTables, LoopRamTotals)
    /\ collected_ticks' = IF proc_ret'.raised THEN collected_ticks
                          ELSE collected_ticks \cup {tick}
    /\ pc' = IF proc_ret'.raised THEN "crashed" ELSE "emit_test"
    /\ \E ms \in CollectMs : spent' = [spent EXCEPT !.collect = ms]
    /\ UNCHANGED <<_is_running, tick, emitted_ticks, slept, stop_at, pending>>

\* line 38
run_emit_test ==
    /\ pc = "emit_test"
    /\ pc' = IF ShouldEmit(_is_running) THEN "emit" ELSE "sleep"
    /\ UNCHANGED <<_is_running, system_data, tick, collected_ticks, emitted_ticks,
                   slept, stop_at, spent, proc_ret, pending>>
    /\ UNCHANGED <<gpu_vars, cpu_vars>>

\* line 39: the receiver lives in the GUI thread (ui.py lines 227-230), so the
\* connection is queued: emit posts one call of update_ui to that thread's
\* event queue and returns
run_emit ==
    /\ pc = "emit"
    /\ emitted_ticks' = emitted_ticks \cup {tick}
    /\ pending' = Append(pending, tick)
    /\ pc' = "sleep"
    /\ \E ms \in EmitMs : spent' = [spent EXCEPT !.emit = ms]
    /\ UNCHANGED <<_is_running, system_data, tick, collected_ticks, slept, stop_at,
                   proc_ret>>
    /\ UNCHANGED <<gpu_vars, cpu_vars>>

\* lines 42-45
run_sleep ==
    /\ pc = "sleep"
    /\ slept' = SleepTime(REFRESH_INTERVAL_MS, Elapsed(spent))
    /\ pc' = "while"
    /\ UNCHANGED <<_is_running, system_data, tick, collected_ticks, emitted_ticks,
                   stop_at, spent, proc_ret, pending>>
    /\ UNCHANGED <<gpu_vars, cpu_vars>>

\* line 47-48
run_shutdown ==
    /\ pc = "shutdown"
    /\ ShutdownCall
    /\ pc' = "stopped"
    /\ UNCHANGED <<_is_running, system_data, tick, collected_ticks, emitted_ticks,
                   slept, stop_at, spent, proc_ret, pending>>
    /\ UNCHANGED cpu_vars

\* SystemMonitor.stop, called once from closeEvent (ui.py line 381) on the GUI
\* thread; run() never takes the mutex, so the call is one step for the loop
stop ==
    /\ stop_at.pc = "none"
    /\ _is_running' = FALSE
    /\ stop_at' = [pc |-> pc, tick |-> tick]
    /\ UNCHANGED <<pc, system_data, tick, collected_ticks, emitted_ticks, slept,
                   spent, proc_ret, pending>>
    /\ UNCHANGED <<gpu_vars, cpu_vars>>

\* ui.py lines 234-240: the GUI thread's event loop delivers the oldest posted
\* emission to the slot
update_ui ==
    /\ pending # <<>>
    /\ pending' = Tail(pending)
    /\ UNCHANGED <<pc, _is_running, system_data, tick, collected_ticks, emitted_ticks,
                   slept, stop_at, spent, proc_ret>>
    /\ UNCHANGED <<gpu_vars, cpu_vars>>

\* the steps of the thread that executes run()
run ==
    \/ thread_started
    \/ run_while
    \/ run_map
    \/ run_collect
    \/ run_emit_test
    \/ run_emit
    \/ run_sleep
    \/ run_shutdown

-----------------------------------------------------------------------------
(* Specifications *)

Next ==
    \/ thread_started
    \/ run_while
    \/ run_map
    \/ run_collect
    \/ run_emit_test
    \/ run_emit
    \/ run_sleep
    \/ run_shutdown
    \/ stop
    \/ update_ui

\* the monitor as the application runs it
Spec == LoopInit /\ [][Next]_vars

\* the same, with a thread that keeps being scheduled: every call it makes and
\* its sleep return
FairSpec == Spec /\ WF_vars(run)

\* the same, with fairness only on the steps that take run() from its entry to
\* its return when the loop body is not entered: the start of the thread, the
\* loop test and the call of shutdown()
ExitFairSpec ==
    Spec /\ WF_vars(thread_started) /\ WF_vars(run_while) /\ WF_vars(run_shutdown)

\* the loop before its thread is started
LoopIdle ==
    /\ pc = "idle"
    /\ _is_running = TRUE
    /\ system_data = [op |-> "none"]
    /\ tick = 0
    /\ collected_ticks = {}
    /\ emitted_ticks = {}
    /\ slept = 0
    /\ stop_at = [pc |-> "none", tick |-> 0]
    /\ spent = NoTime
    /\ proc_ret = [op |-> "none"]
    /\ pending = <<>>

\* GPUMonitor on a machine without the NVML library (lines 11-13, 39-40)
GpuAbsent ==
    LET g == GPUMonitor_init(FALSE, FALSE) IN
    /\ PYNXML_AVAILABLE = FALSE
    /\ is_available = g.is_available
    /\ pid_gpu_memory_map = g.pid_gpu_memory_map
    /\ nvml_init_calls = g.nvml_init_calls
    /\ nvml_init_ok = g.nvml_init_ok
    /\ nvml_live = g.nvml_init_ok
    /\ nvml_shutdown_calls = 0
    /\ info_failed = FALSE
    /\ gpu_ret = [op |-> "init"]

\* the GPU accessor alone, driven by any sequence of calls as the unit tests
\* drive it
map_pids_to_gpus == MapCall(MaxDevices) /\ UNCHANGED <<cpu_vars, loop_vars>>

get_gpu_info == InfoCall(MaxDevices, DevStats) /\ UNCHANGED <<cpu_vars, loop_vars>>

get_process_gpu_memory ==
    \E pid \in Pids :
        LET r == GetProcessGpuMemory(pid_gpu_memory_map, pid) IN
        /\ gpu_ret' = [op |-> "mem", pid |-> pid, val |-> r.val, raised |-> r.raised]
        /\ pid_gpu_memory_map' = MapAfterGet(pid_gpu_memory_map, pid)
        /\ UNCHANGED <<PYNXML_AVAILABLE, is_available, nvml_init_calls, nvml_init_ok,
                       nvml_live, nvml_shutdown_calls, info_failed>>
        /\ UNCHANGED <<cpu_vars, loop_vars>>

shutdown == ShutdownCall /\ UNCHANGED <<cpu_vars, loop_vars>>

GpuOnlyInit ==
    /\ GpuInit
    /\ CpuInit({[i \in Cores |-> [user |-> 0, system |-> 0, idle |-> 0]]})
    /\ LoopIdle

GpuNext == map_pids_to_gpus \/ get_gpu_info \/ get_process_gpu_memory \/ shutdown

GpuSpec == GpuOnlyInit /\ [][GpuNext]_vars

\* the CPU delta tracker alone, on successive readings
calculate_cpu_percent == CpuCall(CpuReadings) /\ UNCHANGED <<gpu_vars, loop_vars>>

CpuOnlyInit ==
    /\ CpuInit(CpuReadings)
    /\ GpuAbsent
    /\ LoopIdle

CpuNext == calculate_cpu_percent

CpuSpec == CpuOnlyInit /\ [][CpuNext]_vars

\* _collect_data alone, on any process table and RAM size, before the first
\* refresh of the PID map; the CPU counters stand still and no device is listed
StillCpuReadings == {[i \in Cores |-> [user |-> 0, system |-> 0, idle |-> 0]]}

collect_data ==
    /\ CollectCall(StillCpuReadings, 0, DevStats, ProcTables, RamTotals)
    /\ UNCHANGED <<pc, _is_running, tick, collected_ticks, emitted_ticks, slept,
                   stop_at, spent, pending>>

CollectInit ==
    /\ GpuInit
    /\ CpuInit(StillCpuReadings)
    /\ LoopIdle

CollectNext == collect_data

CollectSpec == CollectInit /\ [][CollectNext]_vars

-----------------------------------------------------------------------------
(* Claims about the sampling loop, checked under Spec *)

\* stop() was called while a tick's collection was in progress: after the loop
\* test passed and before _collect_data returned
StoppedMidCollection == stop_at.pc \in {"map", "collect"}

-----------------------------------------------------------------------------
(* Claims about GPUMonitor, checked under GpuSpec *)

\* C2: a query failure anywhere inside get_gpu_info on an enabled accessor makes
\* that call return [] and clears is_available; every get_gpu_info call made
\* after such a failure returns [] without making any NVML call.
C2_InfoFailureDisables ==
    [][gpu_ret'.op = "info" =>
          /\ gpu_ret'.failed => (gpu_ret'.val = <<>> /\ ~is_available')
          /\ info_failed => (gpu_ret'.val = <<>> /\ ~gpu_ret'.queried /\ ~is_available')
      ]_vars

\* a get_gpu_info call made after an earlier one failed at run time
C2_Witness ==
    /\ nvml_init_ok /\ info_failed
    /\ gpu_ret.op = "info" /\ ~gpu_ret.failed /\ gpu_ret.val = <<>>

\* C3: a query failure anywhere inside _map_pids_to_gpus leaves the map empty,
\* never partially built, and leaves is_available true; the refresh that
\* follows a failed one queries the driver again.
C3_MapFailureTransient ==
    [][gpu_ret'.op = "map" =>
          /\ gpu_ret'.failed => (pid_gpu_memory_map' = EmptyMap /\ is_available')
          /\ (gpu_ret.op = "map" /\ gpu_ret.failed) => gpu_ret'.queried
      ]_vars

\* a refresh that failed after entries of an earlier device had been added
C3_Witness ==
    /\ gpu_ret.op = "map" /\ gpu_ret.failed /\ gpu_ret.partial > 0
    /\ pid_gpu_memory_map = EmptyMap /\ is_available

\* C4: when initialisation failed (library absent or nvmlInit error) then after
\* any sequence of calls get_gpu_info returns [], get_process_gpu_memory returns
\* 0 for every pid, and nvmlInit is not invoked again.
C4_InitFailureIsPermanent ==
    ~nvml_init_ok =>
        /\ ~is_available
        /\ gpu_ret.op = "info" => (gpu_ret.val = <<>> /\ ~gpu_ret.raised)
        /\ gpu_ret.op = "mem" => (gpu_ret.val = 0 /\ ~gpu_ret.raised)
        /\ \A p \in Pids : MapGet(pid_gpu_memory_map, p) = 0
        /\ nvml_init_calls = (IF PYNXML_AVAILABLE THEN 1 ELSE 0)

\* nvmlInit was attempted and failed, and a lookup was made afterwards
C4_Witness ==
    /\ PYNXML_AVAILABLE /\ ~nvml_init_ok /\ nvml_init_calls = 1
    /\ gpu_ret.op = "mem"

\* C5: once is_available is false it is never true again.
C5_AvailabilityMonotone == [][~is_available => ~is_available']_vars

\* the flag was cleared at run time and further calls were made
C5_Witness ==
    /\ nvml_init_ok /\ ~is_available
    /\ gpu_ret.op = "map"

\* C6: shutdown() invokes nvmlShutdown exactly once whenever initialisation
\* succeeded, whatever happened in between, and invokes nothing and raises
\* nothing when it did not.
C6_ShutdownReleases ==
    gpu_ret.op = "shutdown" =>
        /\ nvml_init_ok => gpu_ret.released = 1
        /\ ~nvml_init_ok => (gpu_ret.released = 0 /\ ~gpu_ret.raised)

-----------------------------------------------------------------------------
(* Claims about _calculate_cpu_percent, checked under CpuSpec *)

InRange(r) == ~RLess(r, Zero) /\ ~RLess(Hundred, r)

\* deltas of the most recent call, from the two readings it used
RetBusy(i) ==
    (cpu_ret.current_times[i].user - cpu_ret.last_times[i].user)
    + (cpu_ret.current_times[i].system - cpu_ret.last_times[i].system)
RetAll(i) == RetBusy(i) + (cpu_ret.current_times[i].idle - cpu_ret.last_times[i].idle)
RetTotalBusy == SumOver([i \in Cores |-> RetBusy(i)], NumCores)
RetTotalAll == SumOver([i \in Cores |-> RetAll(i)], NumCores)

C9_PercentInRange ==
    cpu_ret.op = "sample" =>
        /\ InRange(cpu_ret.total_percent)
        /\ \A i \in Cores : InRange(cpu_ret.per_cpu_percent[i])

\* idle decreased on a core, busy / all * 100 exceeds 100 there, 100 is reported
C9_Witness ==
    /\ cpu_ret.op = "sample"
    /\ \E i \in Cores :
          /\ cpu_ret.current_times[i].idle < cpu_ret.last_times[i].idle
          /\ RetAll(i) > 0 /\ RetBusy(i) > RetAll(i)
          /\ cpu_ret.per_cpu_percent[i] = Hundred

\* C10: a core whose delta_user + delta_system + delta_idle is 0 is reported as
\* exactly 0, and the total is 0 when the summed delta over all cores is 0.
C10_ZeroDeltaIsZero ==
    cpu_ret.op = "sample" =>
        /\ \A i \in Cores : RetAll(i) = 0 => cpu_ret.per_cpu_percent[i] = Zero
        /\ RetTotalAll = 0 => cpu_ret.total_percent = Zero

\* a core whose delta_all is 0 although its user time changed, in a sample whose
\* summed delta is 0 although the summed busy time changed
C10_Witness ==
    /\ cpu_ret.op = "sample"
    /\ \E i \in Cores : RetAll(i) = 0 /\ RetBusy(i) # 0 /\ cpu_ret.per_cpu_percent[i] = Zero
    /\ RetTotalAll = 0 /\ RetTotalBusy # 0 /\ cpu_ret.total_percent = Zero

\* the mean of the per-core percentages of the most recent call
RetMeanOfCores ==
    LET s == RSumOver(cpu_ret.per_cpu_percent, NumCores)
    IN  Ratio(s.num, s.den * NumCores)

\* C11: the total percent is clamp(sum of (delta_user + delta_system) over the
\* cores / sum of delta_all over the cores * 100), computed from the summed
\* deltas; it is not the mean of the per-core percentages.
C11_TotalFromSummedDeltas ==
    (cpu_ret.op = "sample" /\ RetTotalAll # 0) =>
        cpu_ret.total_percent = Clamp(Ratio(RetTotalBusy * 100, RetTotalAll))

\* one core fully busy and the other without any accounted time: the total is
\* 100 and the mean of the cores is 50
C11_Witness ==
    /\ cpu_ret.op = "sample" /\ RetTotalAll # 0
    /\ cpu_ret.per_cpu_percent[1] = Hundred /\ cpu_ret.per_cpu_percent[2] = Zero
    /\ cpu_ret.total_percent = Hundred
    /\ RetMeanOfCores = [num |-> 50, den |-> 1]

\* C12: every call stores the reading it took as the new baseline, so a call is
\* computed against the reading of the call before it; a call that reads the
\* same counters as the call before it reports 0 in total and for every core.
C12_BaselineReplaced ==
    [][cpu_ret'.op = "sample" =>
          /\ _last_cpu_times' = cpu_ret'.current_times
          /\ cpu_ret.op = "sample" => cpu_ret'.last_times = cpu_ret.current_times
          /\ (cpu_ret.op = "sample" /\ cpu_ret'.current_times = cpu_ret.current_times)
                 => /\ cpu_ret'.total_percent = Zero
                    /\ \A i \in Cores : cpu_ret'.per_cpu_percent[i] = Zero
      ]_vars

\* a later call read non-zero counters equal to the stored baseline, which is
\* the reading of the call before it, and reported 0 throughout
C12_Witness ==
    /\ cpu_ret.op = "sample" /\ ~cpu_ret.first
    /\ cpu_ret.current_times = cpu_ret.last_times
    /\ _last_cpu_times = cpu_ret.current_times
    /\ Ticks(cpu_ret.current_times) = MaxTicks
    /\ cpu_ret.total_percent = Zero
    /\ \A i \in Cores : cpu_ret.per_cpu_percent[i] = Zero

-----------------------------------------------------------------------------
(* Further claims about the sampling loop, checked under Spec and FairSpec *)

\* C13: once stop() has been called, the loop eventually reaches Stopped, and
\* GPUMonitor.shutdown has been called exactly when Stopped is reached: once, on
\* exit, whether or not nvmlShutdown raised.
C13_StopReachesStopped ==
    /\ (~_is_running ~> (pc = "stopped"))
    /\ []((gpu_ret.op = "shutdown") <=> (pc = "stopped"))

\* C14: the hand-off of snapshots to the consumer is single-slot: at every
\* moment at most one emitted snapshot is pending undelivered, a newer one
\* superseding an undelivered older one.
C14_SingleSlot == Len(pending) <= 1

\* C15: the sleep of a tick is max(0, interval - elapsed), where elapsed is the
\* time the refresh, the collection and the emit of that tick took: nothing
\* when elapsed reaches the interval, the remainder otherwise.
C15_SleepIsRemainder ==
    (pc = "while" /\ tick > 0) =>
        LET elapsed == spent.map + spent.collect + spent.emit IN
        /\ elapsed >= REFRESH_INTERVAL_MS => slept = 0
        /\ elapsed < REFRESH_INTERVAL_MS => slept = REFRESH_INTERVAL_MS - elapsed

\* a tick whose refresh, collection and emit together took longer than the
\* interval although the collection alone did not; the loop is back at its
\* test without having slept
C15_Witness ==
    /\ pc = "while" /\ tick = 1 /\ _is_running /\ 1 \in emitted_ticks
    /\ spent.collect < REFRESH_INTERVAL_MS
    /\ spent.map + spent.collect + spent.emit > REFRESH_INTERVAL_MS
    /\ slept = 0

\* C16: no GPU failure ends the loop: the thread is never ended by an exception
\* out of a GPU call, and on a disabled accessor every tick completed while
\* running has been published with its RAM, CPU and process data.
C16_GpuFailureNotFatal ==
    /\ ~(pc = "crashed" /\ gpu_ret.op = "map" /\ gpu_ret.raised)
    /\ (~is_available /\ _is_running /\ pc \in {"sleep", "while"} /\ tick > 0) =>
          /\ tick \in emitted_ticks
          /\ DOMAIN system_data = {"ram", "cpu", "processes", "gpu"}

-----------------------------------------------------------------------------
(* Further claims about GPUMonitor, checked under GpuSpec *)

\* C17: while is_available is false a refresh makes no query, get_gpu_info
\* returns [] and get_process_gpu_memory returns 0 for every pid.
C17_DisabledYieldsEmpty ==
    ~is_available =>
        /\ gpu_ret.op = "map" => ~gpu_ret.queried
        /\ gpu_ret.op = "info" => gpu_ret.val = <<>>
        /\ gpu_ret.op = "mem" => gpu_ret.val = 0

\* C18: get_process_gpu_memory raises nothing, makes no NVML call and changes
\* neither the map nor is_available; get_gpu_info, also when it fails and
\* disables the accessor, leaves the map as it was; so does shutdown.
C18_MapChangedOnlyByRefresh ==
    [][/\ gpu_ret'.op = "mem" =>
             /\ ~gpu_ret'.raised
             /\ pid_gpu_memory_map' = pid_gpu_memory_map
             /\ is_available' = is_available
             /\ gpu_ret'.val = MapGet(pid_gpu_memory_map, gpu_ret'.pid)
       /\ gpu_ret'.op \in {"info", "shutdown"} =>
             pid_gpu_memory_map' = pid_gpu_memory_map
      ]_vars

\* a get_gpu_info call failed and disabled the accessor while pid 7 was mapped:
\* the entry is still there
C18_Witness ==
    /\ gpu_ret.op = "info" /\ gpu_ret.failed /\ ~is_available
    /\ MapGet(pid_gpu_memory_map, 7) = 50

-----------------------------------------------------------------------------
(* Claims about _collect_data, checked under CollectSpec *)

\* the pids of the records in the snapshot, in list order
ListedPids == [k \in 1..Len(system_data.processes) |-> system_data.processes[k].pid]

\* C19: an enumeration pass raises no error; a process that vanished, was
\* access-denied or was a zombie has no record in the snapshot, and every other
\* process of the table has exactly one.
C19_RacedProcessesSkipped ==
    proc_ret.op = "procs" =>
        /\ ~proc_ret.raised
        /\ ListedPids = SortedSeq({p \in DOMAIN proc_ret.table :
                                      proc_ret.table[p].kind = "ok"})

\* C20: the memory percent of a record is 0 when total RAM is 0 and when the
\* process's resident memory is 0, and memory_bytes / total RAM * 100 otherwise.
C20_MemoryPercent ==
    (proc_ret.op = "procs" /\ ~proc_ret.raised) =>
        \A k \in 1..Len(system_data.processes) :
            LET rec == system_data.processes[k]
                rss == proc_ret.table[rec.pid].rss
            IN  /\ rec.memory_bytes = rss
                /\ rec.memory_percent =
                      IF proc_ret.ram_total = 0 \/ rss = 0 THEN Zero
                      ELSE Ratio(rss * 100, proc_ret.ram_total)

\* a snapshot taken with total RAM 0 that lists a process with resident memory,
\* at 0 percent
C20_Witness ==
    /\ proc_ret.op = "procs" /\ ~proc_ret.raised /\ proc_ret.ram_total = 0
    /\ \E k \in 1..Len(system_data.processes) :
          /\ system_data.processes[k].memory_bytes > 0
          /\ system_data.processes[k].memory_percent = Zero

-----------------------------------------------------------------------------
(* Claims about stopping and about the order of the steps, checked under Spec *)

\* C21: once stop() has set the flag, the flag stays cleared and no tick
\* begins: the loop enters no refresh, and it collects only to finish the tick
\* that was at its refresh or its collection when stop() was called.
C21_NoTickAfterStop ==
    /\ [](stop_at.pc # "none" =>
             /\ ~_is_running
             /\ tick = stop_at.tick
             /\ pc \in {"map", "collect"} => stop_at.pc \in {"map", "collect"}
             /\ pc = "map" => stop_at.pc = "map")
    /\ [][~_is_running => (~_is_running' /\ tick' = tick /\ (pc' = "map" => pc = "map"))]_vars

\* stop() arrived while the loop slept after its first tick: the loop has
\* exited without a second tick, although the tick budget allowed one
C21_Witness ==
    /\ pc = "stopped" /\ stop_at.pc = "sleep" /\ stop_at.tick = 1
    /\ tick = 1 /\ tick < MaxLoopTicks /\ collected_ticks = {1}

\* the snapshot of the current tick is the one handed to data_updated
Published ==
    \/ pc = "emit"
    \/ pc = "sleep" /\ tick \in emitted_ticks

\* C22: a tick refreshes the PID map, then collects, then publishes: the
\* collection step is entered only from the refresh step and the emit only
\* after the collection, the map is not changed between the refresh and the
\* emit, and every process record of a published snapshot carries the amount
\* the map left by that refresh holds for its pid (0 when it holds none).
C22_SnapshotJoinsSameTickMap ==
    /\ [](Published =>
             \A k \in DOMAIN system_data.processes :
                 system_data.processes[k].gpu_memory_bytes
                     = MapGet(pid_gpu_memory_map, system_data.processes[k].pid))
    /\ [][/\ pc' = "collect" => pc \in {"map", "collect"}
          /\ pc' = "emit_test" => pc \in {"collect", "emit_test"}
          /\ pc' = "emit" => pc \in {"emit_test", "emit"}
          /\ pc \in {"collect", "emit_test", "emit"} =>
                 /\ pid_gpu_memory_map' = pid_gpu_memory_map
                 /\ tick' = tick]_vars

\* the second tick publishes a snapshot in which one process has the GPU
\* memory its refresh found and another, not seen on any device, has 0
C22_Witness ==
    /\ pc = "emit" /\ tick = 2
    /\ pid_gpu_memory_map = (7 :> 50)
    /\ Len(system_data.processes) = 2
    /\ system_data.processes[1].gpu_memory_bytes = 50
    /\ system_data.processes[2].gpu_memory_bytes = 0

-----------------------------------------------------------------------------
(* Claim about the device list, checked under GpuSpec *)

\* C23: every device returned by get_gpu_info has memory_percent 0 when its
\* total memory is 0 and used / total * 100 otherwise, and a listing that the
\* driver answers without error, zero-total devices included, returns normally
\* and leaves the accessor enabled.
C23_DevicePercentGuarded ==
    /\ [](gpu_ret.op = "info" =>
             \A k \in DOMAIN gpu_ret.val :
                 gpu_ret.val[k].memory_percent
                     = IF gpu_ret.val[k].total_memory = 0 THEN Zero
                       ELSE Ratio(gpu_ret.val[k].used_memory * 100,
                                  gpu_ret.val[k].total_memory))
    /\ [][(gpu_ret'.op = "info" /\ gpu_ret' # gpu_ret /\ ~gpu_ret'.failed) =>
             /\ ~gpu_ret'.raised
             /\ is_available' = is_available]_vars

\* a listing returned a device with no memory next to one that is a quarter
\* used, and the accessor is still enabled
C23_Witness ==
    /\ gpu_ret.op = "info" /\ ~gpu_ret.failed /\ is_available
    /\ Len(gpu_ret.val) = 2
    /\ gpu_ret.val[1].total_memory = 0 /\ gpu_ret.val[1].memory_percent = Zero
    /\ gpu_ret.val[2].total_memory = 200 /\ gpu_ret.val[2].used_memory = 50
    /\ gpu_ret.val[2].memory_percent = [num |-> 25, den |-> 1]

-----------------------------------------------------------------------------
(* Claims about stop() racing the loop and about the end of run(), checked
   under Spec *)

\* the ticks whose snapshot had been emitted when stop() returned: those before
\* the tick stop() found, and that tick when the loop was already past its emit
EmittedBeforeStop ==
    {t \in emitted_ticks :
        \/ t < stop_at.tick
        \/ t = stop_at.tick /\ stop_at.pc \in {"sleep", "while"}}

\* C24: once stop() has returned no snapshot is emitted: every tick that is
\* ever emitted had been emitted when stop() returned.
C24_NoEmitAfterStop ==
    stop_at.pc # "none" => emitted_ticks = EmittedBeforeStop

\* C25: in a run of the loop every NVML query of the refresh and of the device
\* listing is made before shutdown() is called, nothing is asked of the
\* accessor after it, and nvmlShutdown() is invoked at most once.
C25_QueriesBeforeSingleShutdown ==
    /\ [](/\ nvml_shutdown_calls <= 1
          /\ nvml_shutdown_calls = 1 => (pc = "stopped" /\ gpu_ret.op = "shutdown")
          /\ gpu_ret.op = "shutdown" => pc = "stopped")
    /\ [][gpu_ret.op = "shutdown" =>
             /\ gpu_ret' = gpu_ret
             /\ pid_gpu_memory_map' = pid_gpu_memory_map
             /\ is_available' = is_available
             /\ nvml_shutdown_calls' = nvml_shutdown_calls]_vars

\* the loop ran two ticks that queried the driver, then released it once
C25_Witness ==
    /\ pc = "stopped" /\ tick = 2 /\ collected_ticks = {1, 2}
    /\ gpu_ret.op = "shutdown" /\ gpu_ret.released = 1
    /\ nvml_shutdown_calls = 1 /\ ~nvml_live /\ is_available

\* C26: when stop() is called before the thread has entered run(), run() goes
\* from its loop test straight to shutdown() and returns: it begins no tick,
\* collects nothing, emits nothing, has called shutdown() when it has returned,
\* and, the thread being scheduled, does return.
C26_EarlyStopRunsNoTick ==
    /\ [](stop_at.pc = "idle" =>
             /\ ~_is_running
             /\ pc \in {"idle", "while", "shutdown", "stopped"}
             /\ tick = 0 /\ collected_ticks = {} /\ emitted_ticks = {}
             /\ pending = <<>>
             /\ pc = "stopped" <=> gpu_ret.op = "shutdown")
    /\ [][stop_at.pc = "idle" =>
             /\ pc = "idle" => pc' \in {"idle", "while"}
             /\ pc = "while" => pc' \in {"while", "shutdown"}
             /\ pc = "shutdown" => pc' \in {"shutdown", "stopped"}
             /\ pc = "stopped" => pc' = "stopped"]_vars
    /\ (stop_at.pc = "idle") ~> (pc = "stopped")

\* stop() came first, run() was entered afterwards and has returned after
\* releasing the driver, without a tick
C26_Witness ==
    /\ stop_at.pc = "idle" /\ pc = "stopped" /\ tick = 0
    /\ emitted_ticks = {} /\ gpu_ret.op = "shutdown" /\ gpu_ret.released = 1
    /\ ~nvml_live

====
